---- MODULE Spec2Model ----
(***************************************************************************)
(* Model of the two screens of the Espaco Nave dashboard:                  *)
(*   src/src/pages/member/Messages.tsx   (messaging inbox, MemberMessages) *)
(*   src/src/pages/admin/Dashboard.tsx   (dashboard aggregator, Dashboard) *)
(* Each React callback is one action up to its next await; the code after  *)
(* an await is the action that consumes the settled request.  The hosted   *)
(* store (tables, realtime channel) is the environment: it serves each     *)
(* request at some later step, and a request ends in one of three ways:    *)
(* resolved with data ("ok"), resolved with an error field ("error"), or   *)
(* a rejected promise ("reject").                                          *)
(***************************************************************************)
EXTENDS Integers, Sequences, FiniteSets, TLC

\* ------------------------------------------------------------------ bounds
\* Rows the messages table may hold.
MaxMsgs == 2
\* fetchMessages requests that may be in flight at once.
MaxFetch == 1
\* update requests that may be in flight at once.
MaxUpd == 2
\* Profiles the admin directory may return.
MaxAdmins == 1
\* Largest count a dashboard count query returns.
MaxCount == 1

\* ------------------------------------------------------------------ values
\* The signed-in member, and another account (an administrator).
U == "u"
A == "a"
Users == {U, A}
\* JavaScript's null and undefined are different values under ===.
Null == "null"
Undefined == "undefined"
\* What a text input may hold: nothing, or some text.
Texts == {"", "txt"}

ToastNone == "none"
ToastValidation == "Preencha todos os campos"
ToastSent == "Mensagem enviada!"
ToastSendError == "Erro ao enviar mensagem"
ToastNew == "Nova mensagem recebida!"

VARIABLES
    \* --- useAuth() and the component's lifetime
    user,             \* U or Null
    authLoading,
    mounted,          \* the screen is active
    effectPending,    \* the effect's dependencies changed and it has not run yet
    \* --- MemberMessages state (useState)
    messages,
    admins,
    isLoading,
    isSending,
    newMessageOpen,
    selectedMessage,  \* <<>> for null, <<row>> otherwise
    messageForm,
    toast,            \* the toast the last step raised (ToastNone: none)
    \* --- requests in flight
    fetches,          \* fetchMessages selects
    adminPc, adminIds,\* fetchAdmins: where it is, and the ids its first read gave
    sendPc, sendReq,  \* handleSendMessage: where it is, and the row it inserts
    insertCalls,      \* insert calls issued by the current invocation of send
    updates,          \* handleOpenMessage updates
    \* --- the store
    store,            \* rows of table messages, in insertion order
    userRoles,        \* ids of the rows of table user_roles with role admin
    channel,          \* "none" | "subscribed" | "removed"
    feed,             \* INSERT events pushed on the channel, not yet delivered
    \* --- Dashboard
    queries,          \* the six selects of Promise.all
    dashPc,           \* "idle" | "awaiting" | "done"
    data,
    dashIsLoading

inboxVars == <<user, authLoading, mounted, effectPending, messages, admins,
               isLoading, isSending, newMessageOpen, selectedMessage,
               messageForm, toast, fetches, adminPc, adminIds, sendPc, sendReq,
               insertCalls, updates, store, userRoles, channel, feed>>
dashVars == <<queries, dashPc, data, dashIsLoading>>
vars == <<inboxVars, dashVars>>

\* ------------------------------------------------------------------ helpers
Range(s) == {s[i] : i \in DOMAIN s}

RemoveAt(s, i) == SubSeq(s, 1, i - 1) \o SubSeq(s, i + 1, Len(s))

ReplaceAt(s, i, x) == [s EXCEPT ![i] = x]

\* user?.id
UserId(u) == IF u = Null THEN Undefined ELSE u

\* setState of a component that was unmounted is dropped by React.
SetState(new, old) == IF mounted THEN new ELSE old

EmptyForm == [subject |-> "", content |-> ""]

NoRow == [id |-> 0, subject |-> "", content |-> "", is_read |-> FALSE,
          is_admin_message |-> FALSE, created_at |-> 0,
          sender_id |-> Null, recipient_id |-> Null]

\* ------------------------------------------------------------------ store
\* insert into messages: id and created_at are given by the store, is_read
\* defaults to false.
StoredRow(row, st) ==
    [row EXCEPT !.id = Len(st) + 1, !.created_at = Len(st) + 1,
                !.is_read = FALSE]

\* The realtime filter of the subscription: recipient_id=eq.${user.id}
RealtimeFilter(row, uid) == row.recipient_id = uid

\* The INSERT events an insert pushes to the channel.
Pushed(row) ==
    IF channel = "subscribed" /\ RealtimeFilter(row, U) THEN <<row>> ELSE <<>>

\* .or(`sender_id.eq.${user.id},recipient_id.eq.${user.id}`)
FetchFilter(row, uid) == row.sender_id = uid \/ row.recipient_id = uid

RECURSIVE OrderAsc(_)
\* The select with { ascending: true }.
OrderAsc(S) ==
    IF S = {} THEN <<>>
    ELSE LET low == CHOOSE r \in S : \A q \in S : q.created_at >= r.created_at
         IN  <<low>> \o OrderAsc(S \ {low})

RECURSIVE OrderDesc(_)
\* .order("created_at", { ascending: false }) of a set of rows
OrderDesc(S) ==
    IF S = {} THEN <<>>
    ELSE LET top == CHOOSE r \in S : \A q \in S : q.created_at <= r.created_at
         IN  <<top>> \o OrderDesc(S \ {top})

\* The rows the select of fetchMessages returns.
SelectMessages(st, uid) ==
    OrderDesc({r \in Range(st) : FetchFilter(r, uid)})

\* ------------------------------------------------------------------ inbox: pure parts
\* What the dependency effect hands React as its cleanup: the effect calls
\* setupRealtime() as a statement and returns nothing.
EffectCleanup == "none"

\* What setupRealtime itself returns: a closure that removes the channel.
SetupRealtimeReturn == "removeChannel"

\* The channel after the screen deactivates: React runs the effect's cleanup.
ChannelAfterUnmount(ch) ==
    IF EffectCleanup = SetupRealtimeReturn /\ ch = "subscribed"
    THEN "removed" ELSE ch

\* fetchMessages(): returns at once without a user, else issues the select.
FetchMessagesCall(fs, u) ==
    IF u = Null THEN fs
    ELSE Append(fs, [phase |-> "sent", uid |-> UserId(u), data |-> <<>>])

\* The guard without its test of the content.
ValidComposeNoContent(u, form) == ~(u = Null \/ form.subject = "")

\* The guard of handleSendMessage, negated: the input is complete.
ValidCompose(u, form) ==
    ~(u = Null \/ form.subject = "" \/ form.content = "")

\* admins[0]?.id || null
FirstAdmin(ads) == IF Len(ads) > 0 THEN ads[1].id ELSE Null

\* The row handleSendMessage inserts.
InsertRow(u, ads, form) ==
    [NoRow EXCEPT !.sender_id = UserId(u), !.recipient_id = FirstAdmin(ads),
                  !.subject = form.subject, !.content = form.content,
                  !.is_admin_message = FALSE]

\* The await without "if (error) throw error".
InsertNotThrown(pc, rejects) == ~rejects

\* await insert; if (error) throw error: the code after it runs only when the
\* store took the row and the response came back.
InsertSucceeded(pc, rejects) == pc = "inserted" /\ ~rejects

\* The guard without its test of is_read.
ShouldMarkReadAny(message, u) == message.recipient_id = UserId(u)

\* The guard without its test of the recipient.
ShouldMarkReadUnread(message, u) == ~message.is_read

\* The guard of the update in handleOpenMessage.
ShouldMarkRead(message, u) ==
    ~message.is_read /\ message.recipient_id = UserId(u)

\* .update({ is_read: true })
UpdatePatch == TRUE

\* The patch with is_read: !m.is_read.
PatchToggle(prev, id) ==
    [i \in DOMAIN prev |->
        IF prev[i].id = id THEN [prev[i] EXCEPT !.is_read = ~prev[i].is_read]
        ELSE prev[i]]

\* prev.map((m) => (m.id === message.id ? { ...m, is_read: true } : m))
PatchRead(prev, id) ==
    [i \in DOMAIN prev |->
        IF prev[i].id = id THEN [prev[i] EXCEPT !.is_read = TRUE] ELSE prev[i]]

\* (prev) => [newMessage, ...prev]
Ingest(prev, newMessage) == <<newMessage>> \o prev

\* messages.filter((m) => m.sender_id === user?.id)
InSent(m, u) == m.sender_id = UserId(u)
\* "Recebidas" as whatever the member did not send.
InReceivedNotSent(m, u) == m.sender_id # UserId(u)

\* messages.filter((m) => m.recipient_id === user?.id)
InReceived(m, u) == m.recipient_id = UserId(u)

sentMessages == SelectSeq(messages, LAMBDA m : InSent(m, user))
receivedMessages == SelectSeq(messages, LAMBDA m : InReceived(m, user))

\* The page (lists, buttons, dialogs) is on screen, not the loader.
Rendered == mounted /\ ~authLoading /\ ~isLoading

\* ------------------------------------------------------------------ inbox: auth and lifetime
\* useAuth() finishes loading, with or without a session.
AuthResolved(u) ==
    /\ mounted /\ authLoading
    /\ authLoading' = FALSE
    /\ user' = u
    /\ effectPending' = TRUE
    /\ toast' = ToastNone
    /\ UNCHANGED <<mounted, messages, admins, isLoading, isSending,
                   newMessageOpen, selectedMessage, messageForm, fetches,
                   adminPc, adminIds, sendPc, sendReq, insertCalls, updates,
                   store, channel, feed>>
    /\ UNCHANGED <<userRoles, dashVars>>

\* The session ends while the screen is open.
SignOut ==
    /\ mounted /\ ~authLoading /\ user # Null
    /\ user' = Null
    /\ effectPending' = TRUE
    /\ toast' = ToastNone
    /\ UNCHANGED <<authLoading, mounted, messages, admins, isLoading, isSending,
                   newMessageOpen, selectedMessage, messageForm, fetches,
                   adminPc, adminIds, sendPc, sendReq, insertCalls, updates,
                   store, channel, feed>>
    /\ UNCHANGED <<userRoles, dashVars>>

\* The screen deactivates: React runs the effect's cleanup and discards the
\* component's state (the useState variables are back at their first values;
\* a later setState of this component changes nothing).
LeaveScreen ==
    /\ mounted' = FALSE
    /\ channel' = ChannelAfterUnmount(channel)
    /\ messages' = <<>> /\ admins' = <<>>
    /\ isLoading' = TRUE /\ isSending' = FALSE
    /\ newMessageOpen' = FALSE
    /\ selectedMessage' = <<>>
    /\ messageForm' = EmptyForm

\* useEffect(() => {...}, [user, authLoading])
UseEffect ==
    /\ mounted /\ effectPending
    /\ effectPending' = FALSE
    /\ toast' = ToastNone
    /\ IF ~authLoading /\ user = Null
       THEN \* navigate("/login"): the screen is left
            /\ LeaveScreen
            /\ UNCHANGED <<fetches, adminPc>>
       ELSE IF user # Null
       THEN \* fetchMessages(); fetchAdmins(); setupRealtime();
            /\ fetches' = FetchMessagesCall(fetches, user)
            /\ adminPc' = "roles"
            /\ channel' = "subscribed"
            /\ UNCHANGED <<mounted, messages, admins, isLoading, isSending,
                           newMessageOpen, selectedMessage, messageForm>>
       ELSE UNCHANGED <<mounted, channel, fetches, adminPc, messages, admins,
                        isLoading, isSending, newMessageOpen, selectedMessage,
                        messageForm>>
    /\ UNCHANGED <<user, authLoading, adminIds, sendPc, sendReq, insertCalls,
                   updates, store, feed>>
    /\ UNCHANGED <<userRoles, dashVars>>

\* The member leaves the screen (the back button, any route change).
Unmount ==
    /\ mounted
    /\ LeaveScreen
    /\ effectPending' = FALSE
    /\ toast' = ToastNone
    /\ UNCHANGED <<user, authLoading, fetches, adminPc, adminIds, sendPc,
                   sendReq, insertCalls, updates, store, feed>>
    /\ UNCHANGED <<userRoles, dashVars>>

\* ------------------------------------------------------------------ inbox: fetchMessages
\* The store runs a select of fetchMessages.
FetchServe(i) ==
    /\ i \in DOMAIN fetches
    /\ fetches[i].phase = "sent"
    /\ fetches' = ReplaceAt(fetches, i,
            [fetches[i] EXCEPT !.phase = "served",
                               !.data = SelectMessages(store, fetches[i].uid)])
    /\ toast' = ToastNone
    /\ UNCHANGED <<user, authLoading, mounted, effectPending, messages, admins,
                   isLoading, isSending, newMessageOpen, selectedMessage,
                   messageForm, adminPc, adminIds, sendPc, sendReq,
                   insertCalls, updates, store, channel, feed>>
    /\ UNCHANGED <<userRoles, dashVars>>

\* fetchMessages after its await.  failed: the response carries an error or the
\* promise rejects; both end in the catch block.
FetchReturn(i, failed) ==
    /\ i \in DOMAIN fetches
    /\ failed \/ fetches[i].phase = "served"
    /\ messages' = IF failed THEN messages
                   ELSE SetState(fetches[i].data, messages)
    /\ isLoading' = SetState(FALSE, isLoading)
    /\ fetches' = RemoveAt(fetches, i)
    /\ toast' = ToastNone
    /\ UNCHANGED <<user, authLoading, mounted, effectPending, admins, isSending,
                   newMessageOpen, selectedMessage, messageForm, adminPc,
                   adminIds, sendPc, sendReq, insertCalls, updates, store,
                   channel, feed>>
    /\ UNCHANGED <<userRoles, dashVars>>

\* ------------------------------------------------------------------ inbox: fetchAdmins
\* fetchAdmins after its first await.  nodata: the select resolved with an
\* error and no rows; rejects: the promise rejected (the catch block).
RolesReturn(nodata, rejects) ==
    /\ adminPc = "roles"
    /\ toast' = ToastNone
    /\ IF ~rejects /\ ~nodata /\ userRoles # {}
       THEN adminPc' = "profiles" /\ adminIds' = userRoles
       ELSE adminPc' = "done" /\ UNCHANGED adminIds
    /\ UNCHANGED <<user, authLoading, mounted, effectPending, messages, admins,
                   isLoading, isSending, newMessageOpen, selectedMessage,
                   messageForm, fetches, sendPc, sendReq, insertCalls,
                   updates, store, channel, feed>>
    /\ UNCHANGED <<userRoles, dashVars>>

\* The lists of profiles the second select may give for a set of ids: any of
\* them, in any order (the select states none); <<>> also stands for no data.
ProfileLists(ids) ==
    {l \in {<<>>} \cup {<<[id |-> x, full_name |-> x]>> : x \in ids}
               \cup {<<[id |-> x, full_name |-> x],
                        [id |-> y, full_name |-> y]>> : x \in ids, y \in ids} :
        /\ Len(l) <= MaxAdmins
        /\ Len(l) = 2 => l[1] # l[2]}

\* fetchAdmins after its second await.
ProfilesReturn(profiles, rejects) ==
    /\ adminPc = "profiles"
    /\ profiles \in ProfileLists(adminIds)
    /\ adminPc' = "done"
    /\ admins' = IF rejects THEN admins ELSE SetState(profiles, admins)
    /\ toast' = ToastNone
    /\ UNCHANGED <<user, authLoading, mounted, effectPending, messages,
                   isLoading, isSending, newMessageOpen, selectedMessage,
                   messageForm, fetches, adminIds, sendPc, sendReq,
                   insertCalls, updates, store, channel, feed>>
    /\ UNCHANGED <<userRoles, dashVars>>

\* ------------------------------------------------------------------ inbox: compose and send
\* The "Nova Mensagem" button.
OpenCompose ==
    /\ Rendered /\ ~newMessageOpen /\ selectedMessage = <<>>
    /\ newMessageOpen' = TRUE
    /\ toast' = ToastNone
    /\ UNCHANGED <<user, authLoading, mounted, effectPending, messages, admins,
                   isLoading, isSending, selectedMessage, messageForm, fetches, adminPc, adminIds, sendPc, sendReq, insertCalls,
                   updates, store, channel, feed>>
    /\ UNCHANGED <<userRoles, dashVars>>

\* The member dismisses the compose dialog (onOpenChange).
CloseCompose ==
    /\ Rendered /\ newMessageOpen
    /\ newMessageOpen' = FALSE
    /\ toast' = ToastNone
    /\ UNCHANGED <<user, authLoading, mounted, effectPending, messages, admins,
                   isLoading, isSending, selectedMessage, messageForm, fetches, adminPc, adminIds, sendPc, sendReq, insertCalls,
                   updates, store, channel, feed>>
    /\ UNCHANGED <<userRoles, dashVars>>

\* onChange of the subject and content inputs.
EditForm(field, t) ==
    /\ Rendered /\ newMessageOpen
    /\ messageForm[field] # t
    /\ messageForm' = [messageForm EXCEPT ![field] = t]
    /\ toast' = ToastNone
    /\ UNCHANGED <<user, authLoading, mounted, effectPending, messages, admins,
                   isLoading, isSending, newMessageOpen, selectedMessage, fetches, adminPc, adminIds, sendPc, sendReq, insertCalls,
                   updates, store, channel, feed>>
    /\ UNCHANGED <<userRoles, dashVars>>

\* handleSendMessage up to its await (the button is disabled while isSending).
HandleSendMessage ==
    /\ Rendered /\ newMessageOpen /\ ~isSending
    /\ IF ~ValidCompose(user, messageForm)
       THEN /\ toast' = ToastValidation
            /\ UNCHANGED <<isSending, sendPc, sendReq, insertCalls>>
       ELSE /\ isSending' = TRUE
            /\ sendReq' = InsertRow(user, admins, messageForm)
            /\ insertCalls' = insertCalls + 1
            /\ sendPc' = "await"
            /\ toast' = ToastNone
    /\ UNCHANGED <<user, authLoading, mounted, effectPending, messages, admins,
                   isLoading, newMessageOpen, selectedMessage, messageForm,
                   fetches, adminPc, adminIds, updates, store, channel, feed>>
    /\ UNCHANGED <<userRoles, dashVars>>

\* The store runs the insert: it takes the row, or refuses it.
InsertServe(applied) ==
    /\ sendPc = "await"
    /\ IF applied
       THEN /\ Len(store) < MaxMsgs
            /\ store' = Append(store, StoredRow(sendReq, store))
            /\ feed' = feed \o Pushed(StoredRow(sendReq, store))
            /\ sendPc' = "inserted"
       ELSE /\ sendPc' = "refused"
            /\ UNCHANGED <<store, feed>>
    /\ toast' = ToastNone
    /\ UNCHANGED <<user, authLoading, mounted, effectPending, messages, admins,
                   isLoading, isSending, newMessageOpen, selectedMessage,
                   messageForm, fetches, adminPc, adminIds, sendReq,
                   insertCalls, updates, channel>>
    /\ UNCHANGED <<userRoles, dashVars>>

\* handleSendMessage after its await.  rejects: the promise rejects (the
\* request or its response is lost), whatever the store did.
SendContinue(rejects) ==
    /\ sendPc # "idle"
    /\ rejects \/ sendPc # "await"
    /\ IF InsertSucceeded(sendPc, rejects)
       THEN /\ Len(fetches) < MaxFetch
            /\ toast' = ToastSent
            /\ newMessageOpen' = SetState(FALSE, newMessageOpen)
            /\ messageForm' = SetState(EmptyForm, messageForm)
            /\ fetches' = FetchMessagesCall(fetches, sendReq.sender_id)
       ELSE /\ toast' = ToastSendError
            /\ UNCHANGED <<newMessageOpen, messageForm, fetches>>
    /\ isSending' = SetState(FALSE, isSending)
    /\ sendPc' = "idle"
    /\ sendReq' = NoRow
    /\ insertCalls' = 0
    /\ UNCHANGED <<user, authLoading, mounted, effectPending, messages, admins,
                   isLoading, selectedMessage, adminPc, adminIds, updates,
                   store, channel, feed>>
    /\ UNCHANGED <<userRoles, dashVars>>

\* ------------------------------------------------------------------ inbox: open and mark read
\* handleOpenMessage up to its await, for the i-th entry of the list; the
\* entry is on screen in "Recebidas" or "Enviadas" and no dialog covers it.
HandleOpenMessage(i) ==
    /\ Rendered /\ ~newMessageOpen /\ selectedMessage = <<>>
    /\ i \in DOMAIN messages
    /\ InSent(messages[i], user) \/ InReceived(messages[i], user)
    /\ selectedMessage' = <<messages[i]>>
    /\ IF ShouldMarkRead(messages[i], user)
       THEN /\ Len(updates) < MaxUpd
            /\ updates' = Append(updates,
                                 [id |-> messages[i].id, phase |-> "sent"])
       ELSE UNCHANGED updates
    /\ toast' = ToastNone
    /\ UNCHANGED <<user, authLoading, mounted, effectPending, messages, admins,
                   isLoading, isSending, newMessageOpen, messageForm, fetches, adminPc, adminIds, sendPc, sendReq, insertCalls,
                   store, channel, feed>>
    /\ UNCHANGED <<userRoles, dashVars>>

\* The member dismisses the view dialog (onOpenChange).
CloseMessage ==
    /\ Rendered /\ selectedMessage # <<>>
    /\ selectedMessage' = <<>>
    /\ toast' = ToastNone
    /\ UNCHANGED <<user, authLoading, mounted, effectPending, messages, admins,
                   isLoading, isSending, newMessageOpen, messageForm, fetches, adminPc, adminIds, sendPc, sendReq, insertCalls,
                   updates, store, channel, feed>>
    /\ UNCHANGED <<userRoles, dashVars>>

\* .update({ is_read: true }).eq("id", id) on the table
UpdateRows(st, id) ==
    [k \in DOMAIN st |->
        IF st[k].id = id THEN [st[k] EXCEPT !.is_read = UpdatePatch] ELSE st[k]]

\* The store runs an update: it changes the row, or refuses and changes nothing.
UpdateServe(j, applied) ==
    /\ j \in DOMAIN updates
    /\ updates[j].phase = "sent"
    /\ updates' = ReplaceAt(updates, j, [updates[j] EXCEPT !.phase = "served"])
    /\ store' = IF applied THEN UpdateRows(store, updates[j].id) ELSE store
    /\ toast' = ToastNone
    /\ UNCHANGED <<user, authLoading, mounted, effectPending, messages, admins,
                   isLoading, isSending, newMessageOpen, selectedMessage,
                   messageForm, fetches, adminPc, adminIds, sendPc,
                   sendReq, insertCalls, channel, feed>>
    /\ UNCHANGED <<userRoles, dashVars>>

\* The await with its rejection swallowed.
UpdateSettled(phase, rejects) == TRUE

\* await update: the code after it runs when the promise resolves, whatever
\* the response says (the result is not read); a rejected promise leaves the
\* handler.
UpdateResolved(phase, rejects) == ~rejects

\* handleOpenMessage after its await.
UpdateReturn(j, rejects) ==
    /\ j \in DOMAIN updates
    /\ rejects \/ updates[j].phase = "served"
    /\ messages' = IF UpdateResolved(updates[j].phase, rejects)
                   THEN SetState(PatchRead(messages, updates[j].id), messages)
                   ELSE messages
    /\ updates' = RemoveAt(updates, j)
    /\ toast' = ToastNone
    /\ UNCHANGED <<user, authLoading, mounted, effectPending, admins, isLoading,
                   isSending, newMessageOpen, selectedMessage, messageForm,
                   fetches, adminPc, adminIds, sendPc, sendReq,
                   insertCalls, store, channel, feed>>
    /\ UNCHANGED <<userRoles, dashVars>>

\* ------------------------------------------------------------------ inbox: realtime
\* Another account inserts a message (to the member, to someone else).
OtherInsert(to) ==
    /\ Len(store) < MaxMsgs
    /\ LET row == StoredRow([NoRow EXCEPT !.sender_id = A, !.recipient_id = to,
                                          !.subject = "txt", !.content = "txt",
                                          !.is_admin_message = TRUE], store)
       IN  /\ store' = Append(store, row)
           /\ feed' = feed \o Pushed(row)
    /\ toast' = ToastNone
    /\ UNCHANGED <<user, authLoading, mounted, effectPending, messages, admins,
                   isLoading, isSending, newMessageOpen, selectedMessage,
                   messageForm, fetches, adminPc, adminIds, sendPc,
                   sendReq, insertCalls, updates, channel>>
    /\ UNCHANGED <<userRoles, dashVars>>

\* The INSERT callback of the channel, for the next pushed row.
Deliver ==
    /\ feed # <<>>
    /\ channel = "subscribed"
    /\ messages' = SetState(Ingest(messages, Head(feed)), messages)
    /\ toast' = ToastNew
    /\ feed' = Tail(feed)
    /\ UNCHANGED <<user, authLoading, mounted, effectPending, admins, isLoading,
                   isSending, newMessageOpen, selectedMessage, messageForm,
                   fetches, adminPc, adminIds, sendPc, sendReq, insertCalls,
                   updates, store, channel>>
    /\ UNCHANGED <<userRoles, dashVars>>

\* ------------------------------------------------------------------ Dashboard
\* The selects of Promise.all, in the order of the array: counts of artists,
\* bookings, productions, productions in progress; then the lists of recent
\* productions and upcoming bookings.
CountQueries == 1..4
ListQueries == 5..6
Queries == CountQueries \cup ListQueries

Idle == [status |-> "idle", present |-> FALSE, n |-> 0]
Pending == [status |-> "pending", present |-> FALSE, n |-> 0]
Rejected == [status |-> "rejected", present |-> FALSE, n |-> 0]
\* A resolved select: present says whether its count (its data) is there and
\* not null, n is the count (the number of rows).  A select that resolves with
\* an error field has neither.
Fulfilled(present, n) == [status |-> "fulfilled", present |-> present, n |-> n]

\* result.count || 0
CountOrZero(r) == IF r.present /\ r.n # 0 THEN r.n ELSE 0

\* result.data || []   (rows are told apart by their place)
DataOrEmpty(r) == IF r.present THEN [k \in 1..r.n |-> k] ELSE <<>>

\* The object handed to setData.
Snapshot(qs) ==
    [artistsCount |-> CountOrZero(qs[1]),
     bookingsCount |-> CountOrZero(qs[2]),
     productionsCount |-> CountOrZero(qs[3]),
     activeProductionsCount |-> CountOrZero(qs[4]),
     recentProductions |-> DataOrEmpty(qs[5]),
     upcomingBookings |-> DataOrEmpty(qs[6])]

AnyRejected(qs) == \E q \in Queries : qs[q].status = "rejected"

\* Promise.allSettled: every promise has settled, rejected ones included.
JoinAllSettled(qs) ==
    \A q \in Queries : qs[q].status \in {"fulfilled", "rejected"}

\* Promise.all fulfils once every promise has.
JoinFulfilled(qs) == \A q \in Queries : qs[q].status = "fulfilled"

\* Promise.all has settled: it rejects with the first rejection.
JoinSettled(qs) == AnyRejected(qs) \/ JoinFulfilled(qs)

\* What the component renders: the loader, the page with the statistics, or
\* the page with its header alone ({data && ...}).
DashView ==
    IF dashIsLoading THEN "loading"
    ELSE IF data # <<>> THEN "stats" ELSE "header"

\* useEffect(() => { fetchDashboardData(); }, []) up to the await.
FetchDashboardData ==
    /\ dashPc = "idle"
    /\ queries' = [q \in Queries |-> Pending]
    /\ dashPc' = "awaiting"
    /\ UNCHANGED <<data, dashIsLoading>>
    /\ UNCHANGED inboxVars

\* One select settles.
Settle(q, r) ==
    /\ queries[q].status = "pending"
    /\ queries' = [queries EXCEPT ![q] = r]
    /\ UNCHANGED <<dashPc, data, dashIsLoading>>
    /\ UNCHANGED inboxVars

\* fetchDashboardData after the await: setData on success, the catch block on
\* a rejection, then finally.
JoinContinue ==
    /\ dashPc = "awaiting"
    /\ JoinSettled(queries)
    /\ data' = IF JoinFulfilled(queries) THEN <<Snapshot(queries)>> ELSE data
    /\ dashIsLoading' = FALSE
    /\ dashPc' = "done"
    /\ UNCHANGED queries
    /\ UNCHANGED inboxVars

DashIdle ==
    /\ queries = [q \in Queries |-> Idle]
    /\ dashPc = "idle"
    /\ data = <<>>
    /\ dashIsLoading = TRUE

DashNext ==
    \/ FetchDashboardData
    \/ \E q \in Queries, present \in BOOLEAN, n \in 0..MaxCount :
            Settle(q, Fulfilled(present, IF present THEN n ELSE 0))
    \/ \E q \in Queries : Settle(q, Rejected)
    \/ JoinContinue

\* ------------------------------------------------------------------ specifications
\* The inbox right after construction, before useAuth() has answered.
InboxInit ==
    /\ user = Null /\ authLoading = TRUE /\ mounted = TRUE
    /\ effectPending = FALSE
    /\ messages = <<>> /\ admins = <<>>
    /\ isLoading = TRUE /\ isSending = FALSE
    /\ newMessageOpen \in BOOLEAN
    /\ selectedMessage = <<>>
    /\ messageForm = EmptyForm
    /\ toast = ToastNone
    /\ fetches = <<>>
    /\ adminPc = "idle" /\ adminIds = {}
    /\ sendPc = "idle" /\ sendReq = NoRow /\ insertCalls = 0
    /\ updates = <<>>
    /\ store = <<>> /\ channel = "none" /\ feed = <<>>

Lifetime ==
    \/ \E u \in {U, Null} : AuthResolved(u)
    \/ UseEffect
    \/ Unmount

Listing ==
    \/ \E i \in 1..MaxFetch : FetchServe(i)
    \/ \E i \in 1..MaxFetch, failed \in BOOLEAN : FetchReturn(i, failed)

Composing ==
    \/ OpenCompose
    \/ CloseCompose
    \/ \E f \in {"subject", "content"}, t \in Texts : EditForm(f, t)
    \/ HandleSendMessage
    \/ \E applied \in BOOLEAN : InsertServe(applied)
    \/ \E rejects \in BOOLEAN : SendContinue(rejects)

Reading ==
    \/ \E i \in 1..(2 * MaxMsgs) : HandleOpenMessage(i)
    \/ CloseMessage
    \/ \E j \in 1..MaxUpd, applied \in BOOLEAN : UpdateServe(j, applied)
    \/ \E j \in 1..MaxUpd, rejects \in BOOLEAN : UpdateReturn(j, rejects)

Realtime ==
    \/ \E to \in {U, A} : OtherInsert(to)
    \/ Deliver

Init == InboxInit /\ userRoles = {} /\ DashIdle

\* The inbox of a studio with no administrator account: listing, composing,
\* reading and the realtime feed, in every interleaving.
Next ==
    \/ Lifetime
    \/ Listing
    \/ \E nodata \in BOOLEAN, rejects \in BOOLEAN : RolesReturn(nodata, rejects)
    \/ Composing
    \/ Reading
    \/ Realtime

Spec == Init /\ [][Next]_vars

InitDirectory == InboxInit /\ userRoles \in SUBSET Users /\ DashIdle

Directory ==
    \/ \E nodata \in BOOLEAN, rejects \in BOOLEAN : RolesReturn(nodata, rejects)
    \/ \E p \in ProfileLists(adminIds), rejects \in BOOLEAN :
            ProfilesReturn(p, rejects)

\* Composing under every admin directory (the member may be an administrator),
\* with the session free to end.
NextSend ==
    \/ Lifetime
    \/ SignOut
    \/ Listing
    \/ Directory
    \/ Composing

SpecSend == InitDirectory /\ [][NextSend]_vars

\* Composing and reading under every admin directory, no other account writing.
NextSelf ==
    \/ Lifetime
    \/ Listing
    \/ Directory
    \/ Composing
    \/ Reading

SpecSelf == InitDirectory /\ [][NextSelf]_vars

SpecDash == Init /\ [][DashNext]_vars

\* ------------------------------------------------------------------ properties
\* The list is ordered by created_at, newest first.
SortedDesc(ms) ==
    \A i \in DOMAIN ms, k \in DOMAIN ms :
        i < k => ms[i].created_at >= ms[k].created_at

\* This step issues an update call.
IssuesUpdate == Len(updates') > Len(updates)

\* This step is the return of a fetchMessages select.
FetchReturns == Len(fetches') < Len(fetches)

\* The compose input lacks the user, the subject or the content.
InvalidCompose ==
    user = Null \/ messageForm.subject = "" \/ messageForm.content = ""

\* C1: an invocation of send issues exactly one insert, with sender_id the
\* current user, leaves the compose dialog as it is when it issues the insert
\* and while it waits, and closes the dialog only in the step that takes the
\* insert's answer, and only when the store took the row.
C1_SendInsertsOnceClosesAfterSuccess ==
    [][ /\ (sendPc = "idle" /\ sendPc' # "idle") =>
              /\ insertCalls' = 1
              /\ sendReq'.sender_id = user /\ user # Null
              /\ newMessageOpen' = newMessageOpen
        /\ (sendPc' # "idle") => insertCalls' = 1
        /\ (sendPc # "idle" /\ sendPc' = "idle"
                /\ newMessageOpen /\ ~newMessageOpen') =>
              sendPc = "inserted" /\ insertCalls = 1
      ]_vars

\* C1 witness: send has closed the dialog after the store took the row.
C1_Witness ==
    /\ toast = ToastSent /\ mounted /\ ~newMessageOpen /\ sendPc = "idle"
    /\ \E k \in DOMAIN store : store[k].sender_id = U

\* C2: with the user, the subject or the content missing no step starts a send
\* (no insert is issued, isSending stays), and the step that raises the
\* validation toast happens only on such input and changes neither the list,
\* the form, the dialog, isSending nor any request in flight.
C2_InvalidSendDoesNothing ==
    [][ /\ (InvalidCompose /\ sendPc = "idle") =>
              /\ sendPc' = "idle" /\ sendReq' = sendReq
              /\ insertCalls' = insertCalls
              /\ (mounted' => isSending' = isSending)
        /\ (toast' = ToastValidation) =>
              /\ InvalidCompose
              /\ UNCHANGED <<messages, messageForm, newMessageOpen, isSending,
                             isLoading, selectedMessage, admins, fetches,
                             updates, adminPc, adminIds, sendPc, sendReq,
                             insertCalls, store, feed, channel>>
      ]_vars

\* C2 witness: the validation toast is up for a signed-in member who typed a
\* subject and no content.
C2_Witness ==
    /\ toast = ToastValidation /\ user = U
    /\ messageForm.subject # "" /\ messageForm.content = ""
    /\ newMessageOpen /\ sendPc = "idle" /\ ~isSending

\* C3 as stated: once a select has rejected no snapshot is published and the
\* view stays in the loading state.
C3_RejectKeepsLoading ==
    AnyRejected(queries) => data = <<>> /\ DashView = "loading"

\* C3 amended: once a select has rejected no snapshot is ever published and no
\* select is issued again, but the join's finally clears the loading flag: the
\* view leaves the loader and shows the page with its header and no statistics.
C3_RejectNoSnapshotButLoaded ==
    /\ [](AnyRejected(queries) =>
            /\ data = <<>>
            /\ dashPc = "done" => DashView = "header")
    /\ [][\A q \in Queries :
            queries[q].status = "rejected" => queries'[q] = queries[q]]_vars

\* C3 witness: the select of the productions in progress rejected and the join
\* has run.
C3_Witness ==
    queries[4].status = "rejected" /\ dashPc = "done" /\ ~dashIsLoading

\* C4: once the screen is deactivated the realtime subscription is released.
C4_SubscriptionReleased == ~mounted => channel # "subscribed"

\* C5 as stated: the update is issued at most once per message id (no two
\* update calls for one id are ever out together).
C5_UpdateAtMostOncePerId ==
    \A j \in DOMAIN updates, k \in DOMAIN updates :
        j # k => updates[j].id # updates[k].id

\* C5 amended: a step issues an update only for the entry of the list that is
\* being opened and that is unread there: opening an entry that is already
\* read issues no update.
C5_ReadEntryIssuesNoUpdate ==
    [][IssuesUpdate =>
          /\ Len(selectedMessage') = 1
          /\ selectedMessage'[1] \in Range(messages)
          /\ ~selectedMessage'[1].is_read
          /\ updates'[Len(updates')].id = selectedMessage'[1].id
      ]_vars

\* C5 witness: a read message addressed to the member is open and no update
\* is out.
C5_Witness ==
    /\ Len(selectedMessage) = 1 /\ updates = <<>>
    /\ selectedMessage[1].is_read
    /\ selectedMessage[1].recipient_id = U
    /\ selectedMessage[1] \in Range(messages)

\* C6 as stated: opening a message whose sender_id is the current user never
\* issues an update.
C6_SentNeverUpdates ==
    [][IssuesUpdate => selectedMessage'[1].sender_id # UserId(user)]_vars

\* C6 amended: an update is issued only for an opened message whose
\* recipient_id is the current user; so a message the member sent issues one
\* only when it is addressed to the member too.
C6_UpdateOnlyForRecipient ==
    [][IssuesUpdate =>
          /\ Len(selectedMessage') = 1
          /\ selectedMessage'[1].recipient_id = UserId(user)
          /\ updates'[Len(updates')].id = selectedMessage'[1].id
      ]_vars

\* C6 witness: an unread message the member sent to someone else is open and
\* no update is out.
C6_Witness ==
    /\ Len(selectedMessage) = 1 /\ updates = <<>>
    /\ selectedMessage[1].sender_id = U
    /\ selectedMessage[1].recipient_id # U
    /\ ~selectedMessage[1].is_read

\* C7 as stated: apart from the realtime prepend, no step takes a message
\* whose entries in the list are all read to an entry that is unread.
C7_LocalReadMonotonic ==
    [][feed' = feed =>
          \A i \in DOMAIN messages :
              (\A n \in DOMAIN messages :
                    messages[n].id = messages[i].id => messages[n].is_read)
                  => \A k \in DOMAIN messages' :
                        messages'[k].id = messages[i].id => messages'[k].is_read
      ]_vars

\* C7 amended: in the store is_read never goes from true to false, and in the
\* list no step but the return of a list response takes an entry from read to
\* unread: any other step leaves the list, empties it (the screen is left),
\* prepends one row to it, or keeps every entry in place and every read entry
\* read.
C7_RevertOnlyByListResponse ==
    [][ /\ \A k \in DOMAIN store : store[k].is_read => store'[k].is_read
        /\ ~FetchReturns =>
              \/ messages' = messages
              \/ messages' = <<>>
              \/ (messages' # <<>> /\ Tail(messages') = messages)
              \/ /\ Len(messages') = Len(messages)
                 /\ \A i \in DOMAIN messages :
                        /\ messages'[i].id = messages[i].id
                        /\ messages[i].is_read => messages'[i].is_read
      ]_vars

\* C7 witness: a message is read in the list and in the store, after a row
\* was pushed and a second message was stored.
C7_Witness ==
    /\ Len(store) = 2
    /\ \E i \in DOMAIN messages :
          messages[i].is_read /\ store[messages[i].id].is_read

\* C8 as stated: the list the inbox holds is sorted by created_at descending.
C8_ListSorted == SortedDesc(messages)

\* C8 amended: the list that the return of a list response installs is sorted
\* by created_at descending (the realtime prepend may leave it unsorted).
C8_InstalledListSorted ==
    [][(FetchReturns /\ messages' # messages) => SortedDesc(messages')]_vars

\* C8 witness: after a re-list the list holds the message the member just sent
\* above an older one the member received.
C8_Witness ==
    /\ Len(messages) = 2
    /\ messages[1].created_at > messages[2].created_at
    /\ messages[1].sender_id = U /\ messages[2].recipient_id = U
    /\ fetches = <<>>

\* C9 as stated: no message is in both "Enviadas" and "Recebidas".
C9_PartitionsDisjoint ==
    Range(sentMessages) \cap Range(receivedMessages) = {}

\* C9 amended: for a signed-in member every message of the list is in one of
\* the two partitions, and in both exactly when it is addressed to its own
\* sender.
C9_OverlapIsSelfAddressed ==
    user # Null =>
        \A m \in Range(messages) :
            /\ m \in Range(sentMessages) \/ m \in Range(receivedMessages)
            /\ (m \in Range(sentMessages) /\ m \in Range(receivedMessages))
                   <=> m.sender_id = m.recipient_id

\* C9 witness: the list holds a message the member sent to the member, and one
\* sent to someone else.
C9_Witness ==
    /\ \E m \in Range(messages) : m.sender_id = U /\ m.recipient_id = U
    /\ \E m \in Range(messages) : m.sender_id = U /\ m.recipient_id # U

\* C10 as stated: the patch does not wait for the update: while an update call
\* is out, the entries of its message are already read in the list.
C10_PatchedWhileUpdateOut ==
    \A j \in DOMAIN updates :
        \A i \in DOMAIN messages :
            messages[i].id = updates[j].id => messages[i].is_read

\* C10 amended: the patch waits for the update: apart from the return of a list
\* response, an entry goes from unread to read only in the step that takes the
\* answer of an update the store has served for that message; that step reads
\* no result, and marks every entry of the message read or leaves the list.
C10_PatchAfterUpdateResolves ==
    [][ /\ (~FetchReturns /\ Len(messages') = Len(messages)) =>
              \A i \in DOMAIN messages :
                  (~messages[i].is_read /\ messages'[i].is_read) =>
                      \E j \in DOMAIN updates :
                          /\ updates[j].id = messages[i].id
                          /\ updates[j].phase = "served"
                          /\ updates' = RemoveAt(updates, j)
        /\ Len(updates') < Len(updates) =>
              \E j \in DOMAIN updates :
                  /\ updates' = RemoveAt(updates, j)
                  /\ messages' \in {messages,
                                    PatchRead(messages, updates[j].id)}
      ]_vars

\* C10 witness: the store refused the update and the list shows the message
\* read all the same, with no update out: no rollback.
C10_Witness ==
    /\ updates = <<>> /\ mounted
    /\ \E i \in DOMAIN messages :
          /\ messages[i].is_read
          /\ messages[i].recipient_id = U
          /\ ~store[messages[i].id].is_read

====
